---------------------------- MODULE Spec2Model ----------------------------
(***************************************************************************)
(* Model of the trade engine of src/bot.ts (class Bot): the admission      *)
(* controller (semaphore + in-flight sell counter), the buy and sell       *)
(* pipelines with their retry loops, the qualification loop (filterMatch)  *)
(* and the exit-signal loop (waitForSellSignal).                           *)
(*                                                                         *)
(* buy() and sell() are asynchronous tasks on one cooperative scheduler.   *)
(* A task runs without interruption from one await to the next, so one     *)
(* action of the model is the code between two suspension points.          *)
(* Consecutive awaits between which the task touches no shared field are   *)
(* taken as one step.  Every external call (stores, filter, quote fetch,   *)
(* transaction executor, balance query) returns a value chosen from a      *)
(* small set, or throws.                                                   *)
(*                                                                         *)
(* Amounts are raw integer units of the quote token: TokenAmount.mul(pct)  *)
(* .numerator.div(new BN(100)) is  (amount * pct) \div 100.                *)
(***************************************************************************)
EXTENDS Integers, Sequences, FiniteSets

\* ------------------------------------------------------------- bounds --
\* Task slots: the number of buy() and sell() calls that can be in flight
\* at once; a slot is taken again once its call has ended.
NumTasks == 2
\* The number of buy() and sell() calls made in one behaviour.
MaxCalls == 3
\* Token mints 1..NumMints.
NumMints == 2
\* maxTokensAtTheTime ranges over 1..MaxTokens in the pipeline specification.
MaxTokens == 2
\* maxBuyRetries and maxSellRetries of the pipeline specification.
MaxRetries == 2
\* priceCheckInterval ranges over 0..MaxInterval, priceCheckDuration over
\* 0..MaxDuration in the exit-signal specification.
MaxInterval == 2
MaxDuration == 3
\* Wallet balances returned by connection.getBalance: 0..MaxWallet.
MaxWallet == 1
\* consecutiveMatchCount ranges over 1..MaxMatch in the qualification
\* specification.
MaxMatch == 2

Tasks == 1..NumTasks
Mints == 1..NumMints

\* Amounts the quote step (Liquidity.computeAmountOut) can report for a
\* position entered with quoteAmount = 100: both sides of the max-loss
\* cutoff (50), of the stop loss (90) and of the take profit (110).
QuoteSamples == {0, 49, 50, 51, 89, 90, 91, 100, 109, 110, 111, 120}
\* The coarser feed used when several tasks interleave.
PipelineQuotes == {49, 89, 100, 111}

\* ------------------------------------------------------ configuration --
\* BotConfig, restricted to the fields the engine's control flow reads.
PipelineConfigs ==
    { [ maxTokensAtTheTime |-> n,
        useSnipeList |-> FALSE,
        autoBuyDelay |-> d,
        autoSellDelay |-> 0,
        maxBuyRetries |-> MaxRetries,
        maxSellRetries |-> MaxRetries,
        fee |-> 0,
        quoteAmount |-> 100,
        takeProfit |-> 10,
        stopLoss |-> 10,
        trailingStopLoss |-> FALSE,
        skipSellingIfLostMoreThan |-> 50,
        priceCheckInterval |-> 1,
        priceCheckDuration |-> 1,
        filterCheckInterval |-> 1,
        filterCheckDuration |-> 2,
        consecutiveMatchCount |-> 2 ] : n \in 1..MaxTokens, d \in {0, 1} }

SignalConfigs ==
    { [ maxTokensAtTheTime |-> 1,
        useSnipeList |-> FALSE,
        autoBuyDelay |-> 0,
        autoSellDelay |-> 0,
        maxBuyRetries |-> MaxRetries,
        maxSellRetries |-> MaxRetries,
        fee |-> 0,
        quoteAmount |-> 100,
        takeProfit |-> 10,
        stopLoss |-> 10,
        trailingStopLoss |-> tr,
        skipSellingIfLostMoreThan |-> sk,
        priceCheckInterval |-> pi,
        priceCheckDuration |-> pd,
        filterCheckInterval |-> 0,
        filterCheckDuration |-> 0,
        consecutiveMatchCount |-> 1 ] :
      tr \in BOOLEAN, sk \in {0, 50}, pi \in 0..MaxInterval, pd \in 0..MaxDuration }

\* -------------------------------------------------------------- state --
VARIABLES
    config,              \* readonly config: BotConfig
    quotes,              \* the amounts the pool can quote (environment)
    semaphore,           \* Semaphore(maxTokensAtTheTime): [value, waiters]
    sellExecutionCount,  \* private sellExecutionCount
    trades,              \* Map<string, Trade>: mint -> reference of a Trade
    tradeObj,            \* the Trade objects, by reference
    stopLoss,            \* Map<string, TokenAmount>: mint -> watermark
    balance,             \* public balance
    tradesCount,         \* private tradesCount
    journal,             \* the journal file: the records appended so far
    task,                \* the buy()/sell() calls: position and locals
    calls                \* the number of calls made so far

vars == << config, quotes, semaphore, sellExecutionCount, trades, tradeObj,
           stopLoss, balance, tradesCount, journal, task, calls >>

\* Map<K, V> as a function whose domain is the set of keys present.
EmptyMap == [k \in {} |-> 0]
MapHas(map, k) == k \in DOMAIN map
MapSet(map, k, v) == [x \in DOMAIN map \cup {k} |-> IF x = k THEN v ELSE map[x]]
MapDelete(map, k) == [x \in DOMAIN map \ {k} |-> map[x]]

\* trades.get(mint): the reference of the Trade, or NoTrade for undefined.
NoTrade == 0
TradesGet(map, m) == IF MapHas(map, m) THEN map[m] ELSE NoTrade

\* A task slot that has made no call yet.
IdleTask ==
    [ pc |-> "idle", mint |-> 0, amount |-> 0, trade |-> NoTrade, i |-> 0,
      timesChecked |-> 0, matchCount |-> 0, stopLoss |-> 0, amountOut |-> -1,
      signal |-> "none", outcome |-> "none" ]

InitWith(cfgs, feed) ==
    /\ config \in cfgs
    /\ quotes = feed
    /\ semaphore = [value |-> config.maxTokensAtTheTime, waiters |-> << >>]
    /\ sellExecutionCount = 0
    /\ trades = EmptyMap
    /\ tradeObj = EmptyMap
    /\ stopLoss = EmptyMap
    /\ balance = 0
    /\ tradesCount = 0
    /\ journal = << >>
    /\ task = [t \in Tasks |-> IdleTask]
    /\ calls = 0

Init == InitWith(PipelineConfigs, PipelineQuotes)


\* ------------------------------------------------------------- Trade --
\* The Trade class lives in ./helpers; its state machine is taken from the
\* data model: Idle -> Started -> Opened -> Closed, profit computed at close.
NewTrade(m) ==
    [ mint |-> m, state |-> "Idle", amountIn |-> 0, feeIn |-> 0,
      amountOut |-> 0, feeOut |-> 0, reason |-> "none", profit |-> 0 ]

transitionStart(tr) == [tr EXCEPT !.state = "Started"]

open(tr, amountIn, fee) ==
    [tr EXCEPT !.state = "Opened", !.amountIn = amountIn, !.feeIn = fee]

close(tr, amountOut, fee, reason) ==
    [tr EXCEPT !.state = "Closed", !.amountOut = amountOut, !.feeOut = fee,
               !.reason = reason,
               !.profit = amountOut - tr.amountIn - tr.feeIn - fee]

\* completeAndLog(balance, id): the line appended to the journal file.
completeAndLog(ref, tr, bal, id) ==
    [ id |-> id, trade |-> ref, state |-> tr.state,
      reason |-> tr.reason, profit |-> tr.profit, balance |-> bal ]

\* --------------------------------------------------------- Semaphore --
\* async-mutex Semaphore: acquire() takes a permit at once when one is
\* free and queues the caller otherwise; release() returns a permit and
\* hands it to the first queued caller.
isLocked(sem) == sem.value <= 0
getValue(sem) == sem.value

acquire(sem, t) ==
    IF sem.value > 0
    THEN [sem EXCEPT !.value = @ - 1]
    ELSE [sem EXCEPT !.waiters = Append(@, t)]

release(sem) ==
    IF sem.waiters # << >>
    THEN [sem EXCEPT !.waiters = Tail(@)]
    ELSE [sem EXCEPT !.value = @ + 1]

Waiting(sem, t) == \E k \in 1..Len(sem.waiters) : sem.waiters[k] = t

\* ---------------------------------------------------------------- buy --
\* A new call takes the lowest task slot that runs no call.
Free(t) == task[t].pc \in {"idle", "done", "thrown"}

FreeSlot(t) ==
    /\ Free(t)
    /\ \A u \in Tasks : u < t => ~Free(u)
    /\ calls < MaxCalls
    /\ calls' = calls + 1

\* Mints are interchangeable: the calls name them in order of first use.
UsedMints ==
    {task[u].mint : u \in Tasks} \cup {tradeObj[r].mint : r \in DOMAIN tradeObj}
        \cup DOMAIN trades \cup DOMAIN stopLoss

NextMint(m) == \A k \in Mints : k < m => k \in UsedMints

Set(t, r) == task' = [task EXCEPT ![t] = r]

\* The record of a call that has ended: its locals are gone, the path it
\* took remains.
Ended(pc, how) == [IdleTask EXCEPT !.pc = pc, !.outcome = how]

numberOfActionsBeingProcessed ==
    config.maxTokensAtTheTime - getValue(semaphore) + sellExecutionCount

\* The admission test with the isLocked() guard lost and the comparison
\* off by one.
AdmissionRejectsWhenOver ==
    numberOfActionsBeingProcessed > config.maxTokensAtTheTime

\* The admission test without the in-flight sells: only the lock is looked
\* at.
AdmissionRejectsWhenLocked == isLocked(semaphore)

\* The admission test of buy(): TRUE when the buy is skipped.
AdmissionRejects ==
    \/ isLocked(semaphore)
    \/ numberOfActionsBeingProcessed >= config.maxTokensAtTheTime

\* The admission check and semaphore.acquire(), run in one synchronous block.
Admit(t, m) ==
    IF AdmissionRejects
    THEN /\ Set(t, Ended("done", "rejected"))
         /\ UNCHANGED semaphore
    ELSE /\ semaphore' = acquire(semaphore, t)
         /\ Set(t, [IdleTask EXCEPT !.pc = "buy_resolve", !.mint = m])

\* buy() is called: snipe-list check, then the pre-buy delay or, without a
\* delay, the admission check at once.
BuyCall(t, m) ==
    /\ FreeSlot(t)
    /\ NextMint(m)
    /\ \E inList \in BOOLEAN :
         IF config.useSnipeList /\ ~inList
         THEN /\ Set(t, Ended("done", "not_listed"))
              /\ UNCHANGED semaphore
         ELSE IF config.autoBuyDelay > 0
         THEN /\ Set(t, [IdleTask EXCEPT !.pc = "buy_delay", !.mint = m])
              /\ UNCHANGED semaphore
         ELSE Admit(t, m)
    /\ UNCHANGED << config, quotes, sellExecutionCount, trades, tradeObj,
                    stopLoss, balance, tradesCount, journal >>

\* sleep(autoBuyDelay) is over: the admission check.
BuyDelayed(t) ==
    /\ task[t].pc = "buy_delay"
    /\ Admit(t, task[t].mint)
    /\ UNCHANGED << calls, config, quotes, sellExecutionCount, trades, tradeObj,
                    stopLoss, balance, tradesCount, journal >>

\* The catch block of buy() with the release of the finally block lost.
BuyFailedNoRelease(t, tk) ==
    /\ trades' = MapDelete(trades, tk.mint)
    /\ Set(t, Ended("done", "failed"))
    /\ UNCHANGED << tradeObj, semaphore >>

\* The catch block of buy() followed by its finally block.
BuyFailed(t, tk) ==
    /\ trades' = MapDelete(trades, tk.mint)
    /\ semaphore' = release(semaphore)
    /\ Set(t, Ended("done", "failed"))
    /\ UNCHANGED tradeObj

\* buy() returns from inside the try block: the finally block.
BuyReturns(t, tk, how) ==
    /\ semaphore' = release(semaphore)
    /\ Set(t, Ended("done", how))

\* The reference of the next Trade object created.
NewRef == Cardinality(DOMAIN tradeObj) + 1

\* The pool qualified: the Trade is created, started and registered, and
\* the retry loop is entered.
BuyStartTrade(t, tk) ==
    /\ tradeObj' = MapSet(tradeObj, NewRef, transitionStart(NewTrade(tk.mint)))
    /\ trades' = MapSet(trades, tk.mint, NewRef)
    /\ IF 0 < config.maxBuyRetries
       THEN /\ Set(t, [tk EXCEPT !.pc = "buy_swap", !.i = 0,
                                 !.timesChecked = 0, !.matchCount = 0])
            /\ UNCHANGED semaphore
       ELSE BuyReturns(t, tk, "exhausted")

\* The permit is held; market and token account are resolved, then
\* filterMatch() starts (or is skipped in snipe-list mode).
BuyResolve(t) ==
    /\ task[t].pc = "buy_resolve"
    /\ ~Waiting(semaphore, t)
    /\ \E resolved \in BOOLEAN :
         IF ~resolved
         THEN BuyFailed(t, task[t])
         ELSE IF config.useSnipeList
                 \/ config.filterCheckInterval = 0
                 \/ config.filterCheckDuration = 0
         THEN BuyStartTrade(t, task[t])
         ELSE /\ Set(t, [task[t] EXCEPT !.pc = "buy_filter",
                                        !.timesChecked = 0, !.matchCount = 0])
              /\ UNCHANGED << semaphore, trades, tradeObj >>
    /\ UNCHANGED << calls, config, quotes, sellExecutionCount, stopLoss, balance,
                    tradesCount, journal >>

\* The loop test without the round counter: the loop goes on as long as a
\* duration is configured.
MoreRoundsUncounted(timesChecked, duration, interval) ==
    timesChecked >= 0 /\ 0 < duration

\* The loop test off by one: one round too many when interval divides
\* duration.
MoreRoundsInclusive(timesChecked, duration, interval) ==
    timesChecked * interval <= duration

\* while (timesChecked < timesToCheck), timesToCheck being the quotient
\* duration / interval of two numbers (not rounded).
MoreRounds(timesChecked, duration, interval) ==
    timesChecked * interval < duration

\* One round of filterMatch(): filters.execute, then the sleep.
BuyFilterRound(t) ==
    /\ task[t].pc = "buy_filter"
    /\ \E r \in {"true", "false", "throw"} :
         LET tc == task[t].timesChecked + 1
             mc == IF r = "true" THEN task[t].matchCount + 1 ELSE 0
             tk == [task[t] EXCEPT !.timesChecked = tc, !.matchCount = mc]
         IN  IF r = "throw"
             THEN BuyFailed(t, [task[t] EXCEPT !.timesChecked = tc])
             ELSE IF r = "true" /\ config.consecutiveMatchCount <= mc
             THEN BuyStartTrade(t, tk)
             ELSE IF MoreRounds(tc, config.filterCheckDuration,
                                config.filterCheckInterval)
             THEN /\ Set(t, tk)
                  /\ UNCHANGED << semaphore, trades, tradeObj >>
             ELSE /\ BuyReturns(t, tk, "no_match")
                  /\ UNCHANGED << trades, tradeObj >>
    /\ UNCHANGED << calls, config, quotes, sellExecutionCount, stopLoss, balance,
                    tradesCount, journal >>

\* One attempt of the buy retry loop: swap(..., 'buy') returns the
\* executor's result or throws.  swap() does not call swap_log.
BuySwap(t) ==
    /\ task[t].pc = "buy_swap"
    /\ \E r \in {"confirmed", "unconfirmed", "throw"} :
         IF r = "confirmed"
         THEN BuyReturns(t, task[t], "confirmed")
         ELSE IF task[t].i + 1 < config.maxBuyRetries
         THEN /\ Set(t, [task[t] EXCEPT !.i = @ + 1])
              /\ UNCHANGED semaphore
         ELSE BuyReturns(t, [task[t] EXCEPT !.i = @ + 1], "exhausted")
    /\ UNCHANGED << calls, config, quotes, sellExecutionCount, trades, tradeObj,
                    stopLoss, balance, tradesCount, journal >>

\* --------------------------------------------------- waitForSellSignal --
\* amount.mul(pct).numerator.div(new BN(100)), in raw units.
PercentOf(amount, pct) == (amount * pct) \div 100

takeProfitAmount == config.quoteAmount + PercentOf(config.quoteAmount, config.takeProfit)

initialStopLoss == config.quoteAmount - PercentOf(config.quoteAmount, config.stopLoss)

stopSellingAmount == PercentOf(config.quoteAmount, config.skipSellingIfLostMoreThan)

\* The local stopLoss after the trailing-stop block of a round.
trailingStopLoss(sl, amountOut) ==
    LET candidate == amountOut - PercentOf(amountOut, config.stopLoss)
    IN  IF config.trailingStopLoss /\ candidate > sl THEN candidate ELSE sl

\* The cutoff tested after the stop-loss trigger instead of before it: an
\* amount below the stop loss never reaches it.
MaxLossCutoffAfterTrigger(amountOut) ==
    /\ config.skipSellingIfLostMoreThan > 0
    /\ amountOut < stopSellingAmount
    /\ amountOut >= initialStopLoss

\* amountOut.lt(stopSellingAmount), when the cutoff is configured.
MaxLossCutoff(amountOut) ==
    /\ config.skipSellingIfLostMoreThan > 0
    /\ amountOut < stopSellingAmount

\* The two breaks with the comparisons not strict.
SellTriggerInclusive(sl, amountOut) ==
    \/ amountOut <= sl
    \/ amountOut >= takeProfitAmount

\* amountOut.lt(stopLoss) and amountOut.gt(takeProfit): the two breaks.
SellTrigger(sl, amountOut) ==
    \/ amountOut < sl
    \/ amountOut > takeProfitAmount

\* The quote fetch threw.
QuoteFailed == -1

\* The `if (!shouldSell) return` of the retry loop lost: a false exit
\* signal goes on to the swap.
SellToFinallyUnlessHold(t, tk, how) ==
    IF how = "hold"
    THEN Set(t, [tk EXCEPT !.pc = "sell_swap"])
    ELSE Set(t, [IdleTask EXCEPT !.pc = "sell_finally", !.mint = tk.mint,
                                 !.trade = tk.trade, !.outcome = how])

\* sell() leaves its try block (return, break, end of the loop or catch):
\* the finally block starts with await updateBalance().
SellToFinally(t, tk, how) ==
    Set(t, [IdleTask EXCEPT !.pc = "sell_finally", !.mint = tk.mint,
                            !.trade = tk.trade, !.outcome = how])

\* waitForSellSignal() up to its first await: the zero-interval fast path,
\* or the thresholds and the watermark of the mint.
SignalStart(t, tk) ==
    IF config.priceCheckDuration = 0 \/ config.priceCheckInterval = 0
    THEN /\ Set(t, [tk EXCEPT !.pc = "sell_swap", !.signal = "skipped",
                              !.timesChecked = 0, !.amountOut = QuoteFailed])
         /\ UNCHANGED stopLoss
    ELSE LET sl == IF MapHas(stopLoss, tk.mint) THEN stopLoss[tk.mint]
                   ELSE initialStopLoss
         IN  /\ stopLoss' = MapSet(stopLoss, tk.mint, sl)
             /\ Set(t, [tk EXCEPT !.pc = "sell_signal", !.signal = "monitoring",
                                  !.timesChecked = 0, !.stopLoss = sl,
                                  !.amountOut = QuoteFailed])

\* One round of waitForSellSignal(): the quote fetch, the trailing stop, the
\* max-loss cutoff, the two triggers, the sleep and the loop test.
SellSignalRound(t) ==
    /\ task[t].pc = "sell_signal"
    /\ \E q \in quotes \cup {QuoteFailed} :
         LET m == task[t].mint
             tc == task[t].timesChecked + 1
             sl == IF q = QuoteFailed THEN task[t].stopLoss
                   ELSE trailingStopLoss(task[t].stopLoss, q)
             tk == [task[t] EXCEPT !.timesChecked = tc, !.stopLoss = sl,
                                   !.amountOut = q]
             raised == IF sl # task[t].stopLoss THEN MapSet(stopLoss, m, sl)
                       ELSE stopLoss
         IN  IF q # QuoteFailed /\ MaxLossCutoff(q)
             THEN /\ stopLoss' = MapDelete(raised, m)
                  /\ SellToFinally(t, tk, "hold")
             ELSE IF q # QuoteFailed /\ SellTrigger(sl, q)
             THEN /\ stopLoss' = MapDelete(raised, m)
                  /\ Set(t, [tk EXCEPT !.pc = "sell_swap", !.signal = "trigger"])
             ELSE IF MoreRounds(tc, config.priceCheckDuration,
                                config.priceCheckInterval)
             THEN /\ stopLoss' = raised
                  /\ Set(t, tk)
             ELSE /\ stopLoss' = raised
                  /\ Set(t, [tk EXCEPT !.pc = "sell_swap", !.signal = "expired"])
    /\ UNCHANGED << calls, config, quotes, semaphore, sellExecutionCount, trades,
                    tradeObj, balance, tradesCount, journal >>

\* --------------------------------------------------------------- sell --
\* sell() is called: the counter, the Trade lookup, then the pool lookup.
SellCall(t, m, amt) ==
    /\ FreeSlot(t)
    /\ NextMint(m)
    /\ sellExecutionCount' = sellExecutionCount + 1
    /\ Set(t, [IdleTask EXCEPT !.pc = "sell_pool", !.mint = m, !.amount = amt,
                              !.trade = TradesGet(trades, m)])
    /\ UNCHANGED << config, quotes, semaphore, trades, tradeObj, stopLoss,
                    balance, tradesCount, journal >>

\* The catch block of sell(): the Trade is force-closed as a loss.
SellCatch(t, tk) ==
    /\ IF tk.trade # NoTrade
       THEN LET closed == close(tradeObj[tk.trade], 0, 0, "sell_failed")
            IN  /\ tradeObj' = [tradeObj EXCEPT ![tk.trade] = closed]
                /\ balance' = balance + closed.profit
       ELSE UNCHANGED << tradeObj, balance >>
    /\ SellToFinally(t, tk, "failed")

\* poolStorage.get returned (or threw); the zero-amount test.
SellPool(t) ==
    /\ task[t].pc = "sell_pool"
    /\ \E r \in {"absent", "present", "throw"} :
         IF r = "throw"
         THEN SellCatch(t, task[t])
         ELSE /\ IF r = "absent"
                 THEN SellToFinally(t, task[t], "no_pool")
                 ELSE IF task[t].amount = 0
                 THEN SellToFinally(t, task[t], "empty")
                 ELSE Set(t, [task[t] EXCEPT !.pc = "sell_market", !.amount = 0])
              /\ UNCHANGED << tradeObj, balance >>
    /\ UNCHANGED << calls, config, quotes, semaphore, sellExecutionCount, trades,
                    stopLoss, tradesCount, journal >>

\* The pre-sell delay and marketStorage.get are over: createPoolKeys, the
\* Trade is started again, the retry loop is entered.
SellMarket(t) ==
    /\ task[t].pc = "sell_market"
    /\ \E resolved \in BOOLEAN :
         IF ~resolved
         THEN /\ SellCatch(t, task[t])
              /\ UNCHANGED stopLoss
         ELSE /\ IF task[t].trade # NoTrade
                 THEN tradeObj' = [tradeObj EXCEPT ![task[t].trade] =
                                                      transitionStart(@)]
                 ELSE UNCHANGED tradeObj
              /\ IF 0 < config.maxSellRetries
                 THEN SignalStart(t, [task[t] EXCEPT !.i = 0])
                 ELSE /\ SellToFinally(t, task[t], "exhausted")
                      /\ UNCHANGED stopLoss
              /\ UNCHANGED balance
    /\ UNCHANGED << calls, config, quotes, semaphore, sellExecutionCount, trades,
                    tradesCount, journal >>

\* One attempt of the sell retry loop after a true exit signal:
\* swap(..., 'sell') returns the executor's result or throws.
SellSwap(t) ==
    /\ task[t].pc = "sell_swap"
    /\ \E r \in {"confirmed", "unconfirmed", "throw"} :
         IF r = "confirmed"
         THEN /\ SellToFinally(t, task[t], "confirmed")
              /\ UNCHANGED stopLoss
         ELSE IF task[t].i + 1 < config.maxSellRetries
         THEN SignalStart(t, [task[t] EXCEPT !.i = @ + 1])
         ELSE /\ SellToFinally(t, [task[t] EXCEPT !.i = @ + 1], "exhausted")
              /\ UNCHANGED stopLoss
    /\ UNCHANGED << calls, config, quotes, semaphore, sellExecutionCount, trades,
                    tradeObj, balance, tradesCount, journal >>

\* The finally block of sell(): updateBalance() returns a balance or
\* throws; after it the Trade is journaled and removed, and the counter is
\* decremented.
SellFinally(t) ==
    /\ task[t].pc = "sell_finally"
    /\ \E refreshed \in BOOLEAN, b \in 0..MaxWallet, written \in BOOLEAN :
         IF ~refreshed
         THEN /\ b = 0 /\ written
              /\ Set(t, Ended("thrown", task[t].outcome))
              /\ UNCHANGED << balance, tradesCount, journal, trades,
                              sellExecutionCount >>
         ELSE /\ balance' = b
              /\ IF task[t].trade # NoTrade
                 THEN /\ tradesCount' = tradesCount + 1
                      /\ journal' =
                           IF written
                           THEN Append(journal,
                                       completeAndLog(task[t].trade,
                                                      tradeObj[task[t].trade],
                                                      b, tradesCount + 1))
                           ELSE journal
                      /\ trades' = MapDelete(trades, task[t].mint)
                 ELSE /\ written
                      /\ UNCHANGED << tradesCount, journal, trades >>
              /\ sellExecutionCount' = sellExecutionCount - 1
              /\ Set(t, Ended("done", task[t].outcome))
    /\ UNCHANGED << calls, config, quotes, semaphore, tradeObj, stopLoss >>

\* swap_log(direction, ...): the bookkeeping hook of a swap.  No call of
\* it exists in bot.ts (swap() returns the executor's result untouched), so
\* no action of the model uses it.  Its 'buy' branch reads the block-scoped
\* amountIn inside its own initializer and throws before trade.open; its
\* 'sell' branch closes the registered Trade with reason 'closed'.
swap_log(direction, m, amountOut, fee) ==
    IF direction = "sell" /\ MapHas(trades, m)
    THEN [tradeObj EXCEPT ![trades[m]] = close(@, amountOut, config.fee + fee, "closed")]
    ELSE tradeObj

\* ------------------------------------------------------ specifications --
BuyStep(t) ==
    \/ \E m \in Mints : BuyCall(t, m)
    \/ BuyDelayed(t)
    \/ BuyResolve(t)
    \/ BuyFilterRound(t)
    \/ BuySwap(t)

SellStep(t) ==
    \/ \E m \in Mints, amt \in {0, 1} : SellCall(t, m, amt)
    \/ SellPool(t)
    \/ SellMarket(t)
    \/ SellSignalRound(t)
    \/ SellSwap(t)
    \/ SellFinally(t)

Next == \E t \in Tasks : BuyStep(t) \/ SellStep(t)

\* Any interleaving of buy() and sell() tasks.
Spec == Init /\ [][Next]_vars

\* The steps of a call that has been made: every await of buy() and sell()
\* is on an external call that returns or throws, or on a permit that the
\* admitted buy already holds.
RunStep(t) ==
    \/ BuyDelayed(t)
    \/ BuyResolve(t)
    \/ BuyFilterRound(t)
    \/ BuySwap(t)
    \/ SellPool(t)
    \/ SellMarket(t)
    \/ SellSignalRound(t)
    \/ SellSwap(t)
    \/ SellFinally(t)

\* The same interleavings with every external call returning in the end
\* and the event loop running every task that can continue.
SpecFair == Spec /\ \A t \in Tasks : WF_vars(RunStep(t))

\* One sell() call for an untracked position, over the exit-signal
\* configurations.
InitSignal == InitWith(SignalConfigs, QuoteSamples)

NextSignal == SellStep(1)

SpecSignal == InitSignal /\ [][NextSignal]_vars

\* Overlapping sell() calls for untracked positions, with and without the
\* trailing stop.  The feed stays between the max-loss cutoff and the take
\* profit except for one amount beyond each.
TrailingQuotes == {49, 95, 105, 110, 111}

TrailingConfigs ==
    { [ maxTokensAtTheTime |-> 1,
        useSnipeList |-> FALSE,
        autoBuyDelay |-> 0,
        autoSellDelay |-> 0,
        maxBuyRetries |-> MaxRetries,
        maxSellRetries |-> MaxRetries,
        fee |-> 0,
        quoteAmount |-> 100,
        takeProfit |-> 10,
        stopLoss |-> 10,
        trailingStopLoss |-> tr,
        skipSellingIfLostMoreThan |-> 50,
        priceCheckInterval |-> 1,
        priceCheckDuration |-> 2,
        filterCheckInterval |-> 0,
        filterCheckDuration |-> 0,
        consecutiveMatchCount |-> 1 ] : tr \in BOOLEAN }

InitTrailing == InitWith(TrailingConfigs, TrailingQuotes)

NextTrailing == \E t \in Tasks : SellStep(t)

SpecTrailing == InitTrailing /\ [][NextTrailing]_vars

\* One buy() slot over the qualification configurations.
FilterConfigs ==
    { [ maxTokensAtTheTime |-> 1,
        useSnipeList |-> FALSE,
        autoBuyDelay |-> d,
        autoSellDelay |-> 0,
        maxBuyRetries |-> MaxRetries,
        maxSellRetries |-> MaxRetries,
        fee |-> 0,
        quoteAmount |-> 100,
        takeProfit |-> 10,
        stopLoss |-> 10,
        trailingStopLoss |-> FALSE,
        skipSellingIfLostMoreThan |-> 0,
        priceCheckInterval |-> 0,
        priceCheckDuration |-> 0,
        filterCheckInterval |-> fi,
        filterCheckDuration |-> fd,
        consecutiveMatchCount |-> cmc ] :
      d \in {0, 1}, fi \in 0..MaxInterval, fd \in 0..MaxDuration,
      cmc \in 1..MaxMatch }

InitFilter == InitWith(FilterConfigs, PipelineQuotes)

NextFilter == BuyStep(1)

SpecFilter == InitFilter /\ [][NextFilter]_vars

\* The journal over restarts: buy() and sell() calls with one round of
\* qualification and one round of price polling at a flat price, and
\* restarts of the process.
JournalQuotes == {100}

JournalConfigs ==
    { [ maxTokensAtTheTime |-> MaxTokens,
        useSnipeList |-> FALSE,
        autoBuyDelay |-> 1,
        autoSellDelay |-> 0,
        maxBuyRetries |-> MaxRetries,
        maxSellRetries |-> MaxRetries,
        fee |-> 0,
        quoteAmount |-> 100,
        takeProfit |-> 10,
        stopLoss |-> 10,
        trailingStopLoss |-> FALSE,
        skipSellingIfLostMoreThan |-> 0,
        priceCheckInterval |-> 1,
        priceCheckDuration |-> 1,
        filterCheckInterval |-> 1,
        filterCheckDuration |-> 1,
        consecutiveMatchCount |-> 1 ] }

\* The state after one buy() per mint has registered its Trade and
\* returned: every mint is tracked by a started Trade, all permits are
\* back, the journal is empty.
InitJournal ==
    /\ config \in JournalConfigs
    /\ quotes = JournalQuotes
    /\ semaphore = [value |-> config.maxTokensAtTheTime, waiters |-> << >>]
    /\ sellExecutionCount = 0
    /\ trades = [m \in Mints |-> m]
    /\ tradeObj = [r \in Mints |-> transitionStart(NewTrade(r))]
    /\ stopLoss = EmptyMap
    /\ balance = 0
    /\ tradesCount = 0
    /\ journal = << >>
    /\ task = [t \in Tasks |-> IdleTask]
    /\ calls = 0

\* The counter recovered as the number of journal lines instead of the id
\* of the last one.
initCountingLines ==
    /\ tradesCount' = Len(journal)
    /\ \E b \in 0..MaxWallet : balance' = b
    /\ semaphore' = [value |-> config.maxTokensAtTheTime, waiters |-> << >>]
    /\ sellExecutionCount' = 0
    /\ trades' = EmptyMap
    /\ stopLoss' = EmptyMap
    /\ task' = [t \in Tasks |-> IdleTask]
    /\ UNCHANGED << config, quotes, tradeObj, journal, calls >>

\* The process restarts: the calls in flight are gone, a new Bot is
\* constructed over the same journal file and init() refreshes the balance
\* and takes the counter from the last journal line.  The Trade objects of
\* the old process stay in tradeObj, referenced by nothing.
init ==
    /\ tradesCount' = IF journal = << >> THEN 0 ELSE journal[Len(journal)].id
    /\ \E b \in 0..MaxWallet : balance' = b
    /\ semaphore' = [value |-> config.maxTokensAtTheTime, waiters |-> << >>]
    /\ sellExecutionCount' = 0
    /\ trades' = EmptyMap
    /\ stopLoss' = EmptyMap
    /\ task' = [t \in Tasks |-> IdleTask]
    /\ UNCHANGED << config, quotes, tradeObj, journal, calls >>

NextJournal == Next \/ init

SpecJournal == InitJournal /\ [][NextJournal]_vars

\* ------------------------------------------------------------- claims --
N == config.maxTokensAtTheTime

\* The buy tasks that were admitted and have not ended.
Admitted == {t \in Tasks : task[t].pc \in {"buy_resolve", "buy_filter", "buy_swap"}}

\* The admitted buy tasks that hold a permit.
Holders == {t \in Admitted : ~Waiting(semaphore, t)}

\* The sell() calls that have begun and not ended.
SellRunning ==
    {t \in Tasks : task[t].pc \in {"sell_pool", "sell_market", "sell_signal",
                                   "sell_swap", "sell_finally"}}

\* Task t runs the admission check of buy() in this step.
AtAdmission(t) ==
    \/ task[t].pc = "buy_delay" /\ task'[t].pc # "buy_delay"
    \/ /\ Free(t) /\ calls' = calls + 1
       /\ \A u \in Tasks : u < t => ~Free(u)
       /\ task'[t].pc \in {"buy_resolve", "done"}
       /\ task'[t].outcome # "not_listed"

\* C1: at most N buy tasks hold an admission permit in any reachable state,
\* and while N admitted buys hold their permits every further buy attempt
\* that reaches the admission check is rejected: it returns without
\* acquiring or queueing for a permit.
C1_AdmissionBound ==
    [][ /\ Cardinality(Holders') <= N
        /\ \A t \in Tasks :
             (AtAdmission(t) /\ Cardinality(Holders) = N)
                 => /\ task'[t].pc = "done"
                    /\ task'[t].outcome = "rejected"
                    /\ semaphore' = semaphore ]_vars

\* N buys hold all the permits, no sell is in flight, and one more buy
\* attempt has been rejected.
C1_Witness ==
    /\ Cardinality(Holders) = N
    /\ sellExecutionCount = 0
    /\ \E t \in Tasks : task[t].pc = "done" /\ task[t].outcome = "rejected"

\* C2: the permits available are N minus the number of admitted buy tasks
\* still running, whatever way the buys that ended took (each released its
\* one permit once); with no admitted buy running all N permits are back.
C2_PermitsBalance ==
    /\ getValue(semaphore) = N - Cardinality(Admitted)
    /\ semaphore.waiters = << >>

\* A buy ended in its catch block, another after a confirmed swap, no buy
\* is running and all N permits are available.
C2_Witness ==
    /\ Admitted = {}
    /\ getValue(semaphore) = N
    /\ \E t, u \in Tasks :
         /\ task[t].pc = "done" /\ task[t].outcome = "failed"
         /\ task[u].pc = "done" /\ task[u].outcome = "confirmed"

\* C3: sellExecutionCount equals the number of sell() tasks still running
\* (so it is 0 when none is running), on every path of sell() including a
\* failure of the final balance refresh.
C3_SellCounter == sellExecutionCount = Cardinality(SellRunning)

\* C4: while a Trade is registered for a mint, no buy() registers another
\* Trade for that mint: the entry of the mint is never replaced.
C4_OneTradePerMint ==
    [][ \A m \in Mints :
          (MapHas(trades, m) /\ MapHas(trades', m)) => trades'[m] = trades[m]
      ]_vars

\* Task t returns from the buy retry loop in this step, the way `how`.
BuyReturned(t, how) ==
    /\ task[t].pc = "buy_swap"
    /\ task'[t].pc = "done"
    /\ task'[t].outcome = how

\* C5: when a buy swap attempt returns confirmed, the Trade registered for
\* the mint is in state Opened, with its entry amount recorded, when buy()
\* returns.
C5_ConfirmedBuyOpens ==
    [][ \A t \in Tasks :
          BuyReturned(t, "confirmed")
              => /\ MapHas(trades', task[t].mint)
                 /\ LET tr == tradeObj'[trades'[task[t].mint]]
                    IN  tr.state = "Opened" /\ tr.amountIn = config.quoteAmount
      ]_vars

\* C6: when buy() returns without a confirmed swap after its Trade was
\* registered (all retries unconfirmed or throwing), the mint is absent from
\* the active-trades map and nothing was journaled.
C6_FailedBuyDiscards ==
    [][ \A t \in Tasks :
          BuyReturned(t, "exhausted")
              => /\ ~MapHas(trades', task[t].mint)
                 /\ journal' = journal
      ]_vars

\* Task t, holding a tracked Trade, returns from sell() in this step after
\* leaving the try block the way `how`.
SellReturned(t, how) ==
    /\ task[t].pc = "sell_finally"
    /\ task[t].outcome = how
    /\ task[t].trade # NoTrade
    /\ task'[t].pc = "done"

\* C7: when a sell swap attempt returns confirmed for a tracked Trade, at
\* the return of sell() the Trade is Closed with reason 'closed', it has
\* been given the next journal sequence id, and the mint is no longer in
\* the active-trades map.
C7_ConfirmedSellCloses ==
    [][ \A t \in Tasks :
          SellReturned(t, "confirmed")
              => /\ tradeObj'[task[t].trade].state = "Closed"
                 /\ tradeObj'[task[t].trade].reason = "closed"
                 /\ tradesCount' = tradesCount + 1
                 /\ ~MapHas(trades', task[t].mint)
      ]_vars

\* C8, in the case that all maxSellRetries attempts of a sell for a tracked
\* Trade end unconfirmed or throwing: at the return of sell() the Trade is
\* Closed with exit amount 0 and reason 'sell_failed', it has been given the
\* next journal sequence id, and the mint is no longer in the active-trades
\* map.
C8_FailedSellForceCloses ==
    [][ \A t \in Tasks :
          SellReturned(t, "exhausted")
              => /\ tradeObj'[task[t].trade].state = "Closed"
                 /\ tradeObj'[task[t].trade].reason = "sell_failed"
                 /\ tradeObj'[task[t].trade].amountOut = 0
                 /\ tradesCount' = tradesCount + 1
                 /\ ~MapHas(trades', task[t].mint)
      ]_vars

\* The least k with k * interval >= duration.
CeilDiv(duration, interval) == (duration + interval - 1) \div interval

\* C9 as stated: when no round triggers or aborts, waitForSellSignal returns
\* true after exactly priceCheckDuration / priceCheckInterval rounds.
C9_ExactQuotientRounds ==
    \A t \in Tasks :
        task[t].signal = "expired"
            => task[t].timesChecked * config.priceCheckInterval
                   = config.priceCheckDuration

\* C9, amended: with a zero interval or duration waitForSellSignal returns
\* true without entering the price loop; otherwise, when no round triggers
\* or aborts, it returns true after exactly
\* ceil(priceCheckDuration / priceCheckInterval) rounds (at least one), and
\* never runs more rounds than that.
C9_ExpiryForcesSell ==
    \A t \in Tasks :
        /\ (config.priceCheckInterval = 0 \/ config.priceCheckDuration = 0)
               => /\ task[t].pc # "sell_signal"
                  /\ task[t].pc = "sell_swap" => task[t].signal = "skipped"
        /\ task[t].pc = "sell_signal"
               => task[t].timesChecked
                      < CeilDiv(config.priceCheckDuration, config.priceCheckInterval)
        /\ task[t].signal = "expired"
               => /\ task[t].pc = "sell_swap"
                  /\ task[t].timesChecked
                         = CeilDiv(config.priceCheckDuration, config.priceCheckInterval)

\* The loop expired after 2 rounds with duration 3 and interval 2, the exit
\* amount flat at the entry amount.
C9_Witness ==
    \E t \in Tasks :
        /\ task[t].signal = "expired"
        /\ task[t].timesChecked = 2
        /\ config.priceCheckDuration = 3 /\ config.priceCheckInterval = 2
        /\ task[t].amountOut = config.quoteAmount

\* Task t has completed a round that fetched a quote and was not aborted by
\* the max-loss cutoff.
RoundDone(t) ==
    /\ task[t].pc \in {"sell_signal", "sell_swap"}
    /\ task[t].signal \in {"monitoring", "trigger", "expired"}
    /\ task[t].amountOut # QuoteFailed

\* currentAmount < storedStopLoss or currentAmount > takeProfit, with
\* takeProfit = entry + entry * takeProfitPct / 100.
Crossed(t) ==
    \/ task[t].amountOut < task[t].stopLoss
    \/ task[t].amountOut >
           config.quoteAmount + (config.quoteAmount * config.takeProfit) \div 100

\* C10 as stated: after a round not aborted by the cutoff the loop has
\* stopped and returned true exactly when the amount crossed a threshold;
\* otherwise monitoring continues.
C10_StopsOnlyOnTrigger ==
    \A t \in Tasks :
        RoundDone(t) => (task[t].pc = "sell_swap" <=> Crossed(t))

\* C10, amended: after a round not aborted by the cutoff, the loop has
\* taken a trigger break (watermark cleared, true returned) exactly when
\* currentAmount < storedStopLoss or currentAmount > takeProfit, both
\* strict; otherwise monitoring continues unless that round was the last of
\* the budget, in which case true is returned by expiry.  With entry 100
\* and both percentages 10 (no trailing stop), 111 and 89 trigger, 110 and
\* 90 do not.
C10_StrictTriggers ==
    \A t \in Tasks :
        RoundDone(t)
            => /\ task[t].signal = "trigger" <=> Crossed(t)
               /\ task[t].signal = "trigger"
                      => task[t].pc = "sell_swap" /\ ~MapHas(stopLoss, task[t].mint)
               /\ task[t].signal = "monitoring" => task[t].pc = "sell_signal"
               /\ task[t].signal = "expired"
                      => /\ task[t].pc = "sell_swap"
                         /\ ~MoreRounds(task[t].timesChecked,
                                        config.priceCheckDuration,
                                        config.priceCheckInterval)
               /\ ~config.trailingStopLoss
                      => /\ task[t].amountOut \in {89, 111} => task[t].signal = "trigger"
                         /\ task[t].amountOut \in {90, 110} => task[t].signal # "trigger"

\* Exactly 110 was quoted with rounds left: no trigger, monitoring goes on.
C10_Witness ==
    \E t \in Tasks :
        /\ task[t].pc = "sell_signal"
        /\ task[t].amountOut = 110
        /\ ~config.trailingStopLoss
        /\ MapHas(stopLoss, task[t].mint)

\* C11: while the watermark of a mint exists it never decreases from one
\* step to the next, whatever amounts are quoted and whichever exit-signal
\* call stores it; without the trailing stop it never changes at all.
C11_WatermarkMonotone ==
    [][ \A m \in Mints :
          (MapHas(stopLoss, m) /\ MapHas(stopLoss', m))
              => /\ stopLoss'[m] >= stopLoss[m]
                 /\ ~config.trailingStopLoss => stopLoss'[m] = stopLoss[m]
      ]_vars

\* C12: a round of the exit-signal loop ends in one of three ways: the
\* loop returns false, it returns true, or monitoring goes on.  When it
\* returns false the cutoff is configured and the watermark of the mint is
\* gone; a round that observed an amount below entry * skipPct / 100 with
\* the cutoff configured neither goes on nor returns true, also when the
\* amount is below the stop loss (entry 100, skip 50: 49 and 0 never lead
\* to a sell).
C12_MaxLossCutoff ==
    [][ \A t \in Tasks :
          (task[t].pc = "sell_signal" /\ task'[t] # task[t])
              => /\ task'[t].pc \in {"sell_signal", "sell_swap", "sell_finally"}
                 /\ task'[t].pc = "sell_finally"
                        => /\ task'[t].outcome = "hold"
                           /\ config.skipSellingIfLostMoreThan > 0
                           /\ ~MapHas(stopLoss', task[t].mint)
                 /\ (/\ task'[t].pc \in {"sell_signal", "sell_swap"}
                     /\ task'[t].amountOut # QuoteFailed
                     /\ config.skipSellingIfLostMoreThan > 0)
                        => /\ task'[t].amountOut * 100 >=
                                  config.quoteAmount * config.skipSellingIfLostMoreThan
                           /\ config.skipSellingIfLostMoreThan = 50
                                  => task'[t].amountOut \notin {0, 49}
      ]_vars

\* The loop returned false in a sell with the trailing stop on and the
\* cutoff at 50: sell() is on its way out and no watermark is left for the
\* mint.
C12_Witness ==
    \E t \in Tasks :
        /\ task[t].pc = "sell_finally"
        /\ task[t].outcome = "hold"
        /\ config.skipSellingIfLostMoreThan = 50
        /\ config.trailingStopLoss
        /\ ~MapHas(stopLoss, task[t].mint)

\* C13 as stated: filterMatch returns true only in a round that is within
\* the first filterCheckDuration / filterCheckInterval rounds, and returns
\* false once that many rounds are complete.
C13_WithinQuotientRounds ==
    [][ \A t \in Tasks :
          (task[t].pc = "buy_filter" /\ task'[t] # task[t])
              => /\ task'[t].pc = "buy_swap"
                        => (task[t].timesChecked + 1) * config.filterCheckInterval
                               <= config.filterCheckDuration
                 /\ task'[t].outcome = "no_match"
                        => (task[t].timesChecked + 1) * config.filterCheckInterval
                               = config.filterCheckDuration
      ]_vars

\* C13, amended: with a zero interval or duration filterMatch returns true
\* without a filter call.  Otherwise the budget is
\* ceil(filterCheckDuration / filterCheckInterval) rounds, at least one.  In
\* every round a true result adds one to the count of consecutive matches
\* and a false result resets it to 0; the loop returns true in the first
\* round in which the count reaches consecutiveMatchCount, a round of the
\* budget, and returns false when the last round of the budget ends with
\* the count below it.
C13_QualificationLoop ==
    [][ \A t \in Tasks :
          LET budget == CeilDiv(config.filterCheckDuration, config.filterCheckInterval)
              round == task[t].timesChecked + 1
          IN
          /\ (config.filterCheckInterval = 0 \/ config.filterCheckDuration = 0)
                 => /\ task'[t].pc # "buy_filter"
                    /\ task[t].pc = "buy_resolve"
                           => task'[t].pc \in {"buy_resolve", "buy_swap", "done"}
          /\ task'[t].pc = "buy_filter"
                 => /\ task'[t].matchCount < config.consecutiveMatchCount
                    /\ task'[t].matchCount <= task'[t].timesChecked
                    /\ task'[t].timesChecked < budget
          /\ (task[t].pc = "buy_filter" /\ task'[t] # task[t])
                 => /\ task'[t].pc = "buy_swap"
                           => /\ task[t].matchCount + 1 = config.consecutiveMatchCount
                              /\ round <= budget
                    /\ task'[t].pc = "buy_filter"
                           => /\ task'[t].timesChecked = round
                              /\ task'[t].matchCount \in {0, task[t].matchCount + 1}
                    /\ task'[t].outcome = "no_match" => round = budget
                    /\ task'[t].pc \in {"buy_swap", "buy_filter", "done"}
                    /\ task'[t].pc = "done"
                           => task'[t].outcome \in {"no_match", "failed", "exhausted"}
      ]_vars

\* Duration 3, interval 2, two consecutive matches required: the pool
\* qualified, which takes a match in each of the two rounds.
C13_Witness ==
    \E t \in Tasks :
        /\ task[t].pc = "buy_swap"
        /\ config.filterCheckDuration = 3 /\ config.filterCheckInterval = 2
        /\ config.consecutiveMatchCount = 2

\* C14: no round of the qualification loop ends buy() through its catch
\* block: after a round, failed filter call or not, the loop goes on with
\* the round counted, or filterMatch has returned (true: the retry loop
\* starts; false: buy() returns as not matching).
C14_FilterFailureIsFalseRound ==
    [][ \A t \in Tasks :
          (task[t].pc = "buy_filter" /\ task'[t] # task[t])
              => /\ task'[t].outcome # "failed"
                 /\ \/ /\ task'[t].pc = "buy_filter"
                       /\ task'[t].timesChecked = task[t].timesChecked + 1
                    \/ task'[t].pc = "buy_swap"
                    \/ task'[t].pc = "done" /\ task'[t].outcome = "no_match"
      ]_vars

\* The id of the last journal record, 0 for an empty journal.
LastId(j) == IF j = << >> THEN 0 ELSE j[Len(j)].id

\* C15 as stated: the ids of the journal are increasing and the id of the
\* last record, which a restart recovers, is the number of records written
\* since the journal was empty: the records carry the ids 1..N in order.
C15_IdsCountRecords ==
    /\ \A k \in 1..Len(journal) : journal[k].id = k
    /\ LastId(journal) = Len(journal)

\* C15, amended: the ids of the journal records are strictly increasing in
\* append order, under any interleaving and across restarts; a sell() that
\* journals a Trade advances the counter by exactly one and the record it
\* appends carries the new value; a restart sets the counter to the id of
\* the last record.  That id is at least the number N of records and at
\* most the counter; it is N when the counter is N, which is the case as
\* long as every id given out since the journal was empty or since the last
\* restart was written.
C15_JournalSequence ==
    [][ /\ \A k, l \in 1..Len(journal') : k < l => journal'[k].id < journal'[l].id
        /\ \A k \in 1..Len(journal') : journal'[k].id >= k
        /\ LastId(journal') <= tradesCount'
        /\ tradesCount' = Len(journal') => \A k \in 1..Len(journal') : journal'[k].id = k
        /\ journal' # journal
               => /\ Len(journal') = Len(journal) + 1
                  /\ SubSeq(journal', 1, Len(journal)) = journal
                  /\ LastId(journal') = tradesCount'
                  /\ tradesCount' = tradesCount + 1
        /\ \A t \in Tasks :
              (task[t].pc = "sell_finally" /\ task'[t].pc = "done"
                   /\ task[t].trade # NoTrade)
                  => tradesCount' = tradesCount + 1
        /\ tradesCount' # tradesCount
               => \/ tradesCount' = tradesCount + 1
                  \/ journal' = journal /\ tradesCount' = LastId(journal)
        /\ ((\A t \in Tasks : task'[t].pc = "idle")
               /\ (\E t \in Tasks : task[t].pc # "idle"))
               => tradesCount' = LastId(journal')
      ]_vars

\* Two sells journaled the Trades of two positions with ids 1 and 2, then
\* the process restarted: no call is in flight and the new Bot's counter
\* is 2.
C15_Witness ==
    /\ calls = 2
    /\ \A t \in Tasks : task[t].pc = "idle"
    /\ Len(journal) = 2
    /\ journal[1].id = 1 /\ journal[2].id = 2
    /\ journal[1].trade # journal[2].trade
    /\ tradesCount = 2

\* C16: every record is appended to the journal for a Trade that is Closed
\* at that moment, with reason 'closed' or 'sell_failed'; a sell() that
\* leaves its try block because the pool data is absent, the held amount is
\* zero or the exit-signal loop returned false appends nothing.
C16_JournalOnlyClosed ==
    [][ /\ journal' # journal
               => /\ journal'[Len(journal')].state = "Closed"
                  /\ journal'[Len(journal')].reason \in {"closed", "sell_failed"}
        /\ \A t \in Tasks :
              (SellReturned(t, "no_pool") \/ SellReturned(t, "empty")
                   \/ SellReturned(t, "hold"))
                  => journal' = journal
      ]_vars

\* C17: a buy() that runs its admission check is admitted exactly when a
\* permit is available and N - availablePermits + sellExecutionCount < N,
\* that is, when the permits held by buys plus the sells counted in flight
\* are below N.  An admitted buy takes its permit in the same step and is
\* never queued on the semaphore; a rejected buy is over in that step, with
\* the semaphore untouched.
C17_AdmissionRule ==
    [][ /\ semaphore'.waiters = << >>
        /\ \A t \in Tasks :
              AtAdmission(t)
                  => LET passes ==
                             /\ semaphore.value > 0
                             /\ N - semaphore.value + sellExecutionCount < N
                     IN  /\ passes
                            => /\ task'[t].pc = "buy_resolve"
                               /\ Cardinality(Holders) + sellExecutionCount < N
                               /\ semaphore'.value = semaphore.value - 1
                               /\ t \in Holders'
                         /\ ~passes
                            => /\ task'[t].pc = "done"
                               /\ task'[t].outcome = "rejected"
                               /\ semaphore' = semaphore
      ]_vars

\* Two calls were made: a sell() is in flight and a buy() was rejected
\* although no permit is held.
C17_Witness ==
    /\ calls = 2
    /\ semaphore.value = N
    /\ sellExecutionCount = 1
    /\ \E t, u \in Tasks :
         /\ t \in SellRunning
         /\ task[u].pc = "done" /\ task[u].outcome = "rejected"

\* C18: in a sell() call a swap is submitted only in an attempt whose
\* exit-signal call returned true (when it enters the swap step the call
\* has just left waitForSellSignal, by the zero-interval fast path, a
\* trigger or expiry, in attempt i < maxSellRetries); a failed swap leads
\* to the next attempt's exit-signal call, never straight to another swap;
\* once an exit-signal call returns false the call goes to its finally
\* block and submits nothing more; at most maxSellRetries swaps are
\* submitted.
C18_SwapAfterSignal ==
    [][ \A t \in Tasks :
          LET fast == config.priceCheckDuration = 0 \/ config.priceCheckInterval = 0
          IN
          /\ task'[t].pc = "sell_swap"
                 => /\ task'[t].i < config.maxSellRetries
                    /\ task'[t].signal \in {"skipped", "trigger", "expired"}
                    /\ task'[t].signal = "skipped" <=> fast
          /\ (task'[t].pc = "sell_swap" /\ task'[t] # task[t])
                 => \/ task[t].pc = "sell_signal" /\ task'[t].i = task[t].i
                    \/ /\ fast
                       /\ \/ task[t].pc = "sell_market" /\ task'[t].i = 0
                          \/ task[t].pc = "sell_swap" /\ task'[t].i = task[t].i + 1
          /\ (task[t].pc = "sell_swap" /\ task'[t] # task[t])
                 => \/ task'[t].pc = "sell_finally"
                    \/ /\ task'[t].pc = IF fast THEN "sell_swap" ELSE "sell_signal"
                       /\ task'[t].i = task[t].i + 1
                       /\ task'[t].i < config.maxSellRetries
                       /\ task'[t].timesChecked = 0
          /\ (task[t].pc = "sell_signal" /\ task'[t].outcome = "hold")
                 => task'[t].pc = "sell_finally"
          /\ (task[t].pc = "sell_finally" /\ task'[t] # task[t])
                 => task'[t].pc \in {"done", "thrown"}
      ]_vars

\* The swap of the first attempt failed, the exit-signal loop ran again
\* for two rounds and expired, and the second attempt's swap is due.
C18_Witness ==
    \E t \in Tasks :
        /\ task[t].pc = "sell_swap"
        /\ task[t].i = 1
        /\ task[t].signal = "expired"
        /\ task[t].timesChecked = 2

\* C19: a mint for which no sell() call is in flight has no entry in the
\* stop-loss watermark map.
C19_NoWatermarkLeft ==
    \A m \in Mints :
        (\A t \in SellRunning : task[t].mint # m) => ~MapHas(stopLoss, m)

\* C20: no Trade has two records in the journal, whichever way the sell()
\* calls for its mint overlap.
C20_JournaledOnce ==
    \A k, l \in 1..Len(journal) :
        k < l => journal[k].trade # journal[l].trade

\* The calls counted by the loops of task t are within their budgets: at
\* most ceil(duration / interval) rounds per loop, attempt i below the
\* retry cap.
WithinBudget(t) ==
    /\ task[t].pc = "buy_filter"
           => task[t].timesChecked
                  < CeilDiv(config.filterCheckDuration, config.filterCheckInterval)
    /\ task[t].pc = "buy_swap" => task[t].i < config.maxBuyRetries
    /\ task[t].pc = "sell_signal"
           => /\ task[t].i < config.maxSellRetries
              /\ task[t].timesChecked
                     < CeilDiv(config.priceCheckDuration, config.priceCheckInterval)
    /\ task[t].pc = "sell_swap" => task[t].i < config.maxSellRetries

\* C21: every buy() and sell() call that was made ends (returns or
\* rejects), given that every external call returns or throws and every
\* task that can continue is run; until then its filter rounds, its swap
\* attempts, its exit-signal loops and their rounds stay within their
\* budgets, also when every price fetch fails.
C21_CallsTerminate ==
    /\ [](\A t \in Tasks : WithinBudget(t))
    /\ \A t \in Tasks : (~Free(t)) ~> Free(t)

\* A sell() used up its retries and is in its finally block; a buy() ran
\* out of qualification rounds and returned.
C21_Witness ==
    \E t, u \in Tasks :
        /\ task[t].pc = "sell_finally" /\ task[t].outcome = "exhausted"
        /\ task[u].pc = "done" /\ task[u].outcome = "no_match"

=============================================================================
